---- MODULE Spec2Model ----
(***************************************************************************)
(* Model of the UsernameSearch component (src/src/App.jsx): the search     *)
(* executor performSearch, the debounce and throttle helpers, and the      *)
(* effect that dispatches every searchTerm change to both of them.         *)
(*                                                                         *)
(* Strings are sequences of one-character strings.  Time is in             *)
(* milliseconds; the clock advances in steps of at most TimeUnit and never *)
(* past the due time of a pending timer, so a timer callback runs at the   *)
(* instant it is due, in any order with the other events of that instant.  *)
(***************************************************************************)
EXTENDS Integers, Sequences, FiniteSets, TLC

(***************************************************************************)
(* Bounds of the model.                                                    *)
(***************************************************************************)
\* the value of Date.now() when the component is rendered
StartTime == 1000
\* the largest clock step
TimeUnit == 100
\* the clock stops this many milliseconds after StartTime
MaxElapsed == 1200
\* the clock of the direct calls stops this many milliseconds after StartTime
MaxDirectElapsed == 900
\* the number of searchTerm changes / direct calls of a behaviour
MaxCalls == 3
\* the longest term handed to the executor on its own
MaxLen == 3

(***************************************************************************)
(* Program constants.                                                      *)
(***************************************************************************)
\* debounce(..., 300)
delayMs == 300
\* throttle(..., 800) and the gate of the effect
limitMs == 800

\* const usernames = [...]
usernames ==
  << <<"d","a","n","i","e","l","0","1","1","3">>,
     <<"r","e","b","e","k","a">>,
     <<"k","r","i","s","z","t","a">>,
     <<"d","a","n","i","0","1">>,
     <<"a","d","m","i","n","@","d","a","n","0",".","p","w">>,
     <<"t","e","s","z","t","u","s","e","r">>,
     <<"t","e","s","z","t","v","a","g","y","o","k">>,
     <<"K","r","i","s","z","t","i","á","n","0","1">> >>

\* the notice of setMessage in the no-match branch, in ASCII letters
NoMatchMessage == "Nem talalhato egyezo felhasznalonev."

(***************************************************************************)
(* String functions of the language, as far as the component uses them.    *)
(***************************************************************************)
UpperToLower ==
  [c \in {"A","D","K","R","Z","Á"} |->
     CASE c = "A" -> "a" [] c = "D" -> "d" [] c = "K" -> "k"
       [] c = "R" -> "r" [] c = "Z" -> "z" [] c = "Á" -> "á"]

\* String.prototype.toLowerCase, one character
LowerChar(c) == IF c \in DOMAIN UpperToLower THEN UpperToLower[c] ELSE c

\* String.prototype.toLowerCase
toLowerCase(s) == [i \in 1..Len(s) |-> LowerChar(s[i])]

IsWhiteSpace(c) == c \in {" ", "\t"}

RECURSIVE trimStart(_)
trimStart(s) ==
  IF s # <<>> /\ IsWhiteSpace(Head(s)) THEN trimStart(Tail(s)) ELSE s

RECURSIVE trimEnd(_)
trimEnd(s) ==
  IF s # <<>> /\ IsWhiteSpace(s[Len(s)])
  THEN trimEnd(SubSeq(s, 1, Len(s) - 1)) ELSE s

\* String.prototype.trim
trim(s) == trimEnd(trimStart(s))

\* String.prototype.startsWith
startsWith(s, prefix) ==
  /\ Len(prefix) <= Len(s)
  /\ SubSeq(s, 1, Len(prefix)) = prefix

\* the filter comparing against the term as typed, not lower-cased
filterTermAsTyped(candidates, term) ==
  LET Keep(username) == startsWith(toLowerCase(username), term)
  IN SelectSeq(candidates, Keep)

\* usernames.filter((username) => username.toLowerCase().startsWith(term.toLowerCase()))
RECURSIVE filter(_, _)
filter(candidates, term) ==
  IF candidates = <<>> THEN <<>>
  ELSE LET username == Head(candidates)
           rest == filter(Tail(candidates), term)
       IN IF startsWith(toLowerCase(username), toLowerCase(term))
          THEN <<username>> \o rest ELSE rest

(***************************************************************************)
(* State.                                                                  *)
(***************************************************************************)
VARIABLES
  now,               \* Date.now()
  phase,             \* "rendered": first render done, effect not yet run;
                     \* "mounted"; "unmounted"
  searchTerm,        \* useState("")
  results,           \* useState([])
  message,           \* useState("")
  isSearching,       \* useState(false)
  lastExecutionRef,  \* useRef(0), its .current
  timeoutId,         \* the variable closed over by the debounced function
  inThrottle,        \* the variable closed over by the throttled function
  timers,            \* the pending timers of setTimeout
  nextId,            \* the id the next setTimeout returns
  calls,             \* history: the runs of the effect and the calls of the
                     \* debounced and the throttled function
  invocations        \* history: the invocations of performSearch

vars == <<now, phase, searchTerm, results, message, isSearching,
          lastExecutionRef, timeoutId, inThrottle, timers, nextId,
          calls, invocations>>

\* the terms typed into the input field
Terms == { <<>>, <<" ">>, <<"d">>, <<"z">> }

\* the arguments of the direct calls of the helpers
Args == { <<"d">>, <<"z">> }

\* the part of the state the helpers read and write, as one record
Closure ==
  [results |-> results, message |-> message, isSearching |-> isSearching,
   lastExecutionRef |-> lastExecutionRef, timeoutId |-> timeoutId,
   inThrottle |-> inThrottle, timers |-> timers, nextId |-> nextId,
   calls |-> calls, invocations |-> invocations]

Commit(s) ==
  /\ results' = s.results
  /\ message' = s.message
  /\ isSearching' = s.isSearching
  /\ lastExecutionRef' = s.lastExecutionRef
  /\ timeoutId' = s.timeoutId
  /\ inThrottle' = s.inThrottle
  /\ timers' = s.timers
  /\ nextId' = s.nextId
  /\ calls' = s.calls
  /\ invocations' = s.invocations

(***************************************************************************)
(* The search executor.                                                    *)
(***************************************************************************)
\* performSearch without the setMessage("") of the branch that found names
PublishedForKeepMessage(s, term, candidates) ==
  LET s1 == [s EXCEPT !.isSearching = TRUE]
      foundUsernames == filter(candidates, term)
  IN IF trim(term) = <<>>
     THEN [s1 EXCEPT !.message = "", !.results = <<>>, !.isSearching = FALSE]
     ELSE IF Len(foundUsernames) > 0
          THEN [s1 EXCEPT !.results = foundUsernames, !.isSearching = FALSE]
          ELSE [s1 EXCEPT !.message = NoMatchMessage, !.results = <<>>,
                          !.isSearching = FALSE]

\* performSearch returning early without setIsSearching(false)
PublishedForBusyOnEmpty(s, term, candidates) ==
  LET s1 == [s EXCEPT !.isSearching = TRUE]
      foundUsernames == filter(candidates, term)
  IN IF trim(term) = <<>>
     THEN [s1 EXCEPT !.message = "", !.results = <<>>]
     ELSE IF Len(foundUsernames) > 0
          THEN [s1 EXCEPT !.results = foundUsernames, !.message = "",
                          !.isSearching = FALSE]
          ELSE [s1 EXCEPT !.message = NoMatchMessage, !.results = <<>>,
                          !.isSearching = FALSE]

\* what the body of performSearch leaves in the three state cells it sets,
\* over a given candidate list
PublishedFor(s, term, candidates) ==
  LET s1 == [s EXCEPT !.isSearching = TRUE]
      foundUsernames == filter(candidates, term)
  IN IF trim(term) = <<>>
     THEN [s1 EXCEPT !.message = "", !.results = <<>>, !.isSearching = FALSE]
     ELSE IF Len(foundUsernames) > 0
          THEN [s1 EXCEPT !.results = foundUsernames, !.message = "",
                          !.isSearching = FALSE]
          ELSE [s1 EXCEPT !.message = NoMatchMessage, !.results = <<>>,
                          !.isSearching = FALSE]

Published(s, term) == PublishedFor(s, term, usernames)

\* performSearch(term), called at time t from the given path; id is the
\* timer the call belongs to.  The setters of an unmounted component do
\* nothing.
performSearch(s, term, t, path, id) ==
  LET live == phase # "unmounted"
      s1 == IF live THEN Published(s, term) ELSE s
  IN [s1 EXCEPT !.invocations =
        Append(@, [path |-> path, t |-> t, term |-> term, id |-> id,
                   live |-> live])]

(***************************************************************************)
(* debounce and throttle.                                                  *)
(***************************************************************************)
\* clearTimeout(id)
clearTimeout(pending, id) == {tm \in pending : tm.id # id}

\* debounce without the clearTimeout of the previous timer
debounceNoClear(s, term, t, delay) ==
  LET tm == [id |-> s.nextId, due |-> t + delay, kind |-> "debounce",
             args |-> term]
  IN [s EXCEPT !.timers = @ \cup {tm},
               !.timeoutId = s.nextId,
               !.nextId = @ + 1,
               !.calls = Append(@, [fn |-> "debounce", t |-> t,
                                    arg |-> term, id |-> s.nextId])]

\* debounce whose new timer keeps the arguments of the timer it replaces
debounceStaleArgs(s, term, t, delay) ==
  LET old == {tm \in s.timers : tm.id = s.timeoutId}
      cleared == clearTimeout(s.timers, s.timeoutId)
      a == IF old = {} THEN term ELSE (CHOOSE x \in old : TRUE).args
      tm == [id |-> s.nextId, due |-> t + delay, kind |-> "debounce",
             args |-> a]
  IN [s EXCEPT !.timers = cleared \cup {tm},
               !.timeoutId = s.nextId,
               !.nextId = @ + 1,
               !.calls = Append(@, [fn |-> "debounce", t |-> t,
                                    arg |-> term, id |-> s.nextId])]

\* the function debounce(func, delay) returns, called with term at time t
debounce(s, term, t, delay) ==
  LET cleared == clearTimeout(s.timers, s.timeoutId)
      tm == [id |-> s.nextId, due |-> t + delay, kind |-> "debounce",
             args |-> term]
  IN [s EXCEPT !.timers = cleared \cup {tm},
               !.timeoutId = s.nextId,
               !.nextId = @ + 1,
               !.calls = Append(@, [fn |-> "debounce", t |-> t,
                                    arg |-> term, id |-> s.nextId])]

\* throttle that never sets inThrottle
throttleNoFlag(s, term, t, limit) ==
  LET s1 == performSearch(s, term, t, "throttle", s.nextId)
      tm == [id |-> s.nextId, due |-> t + limit, kind |-> "reset",
             args |-> <<>>]
  IN [s1 EXCEPT !.timers = @ \cup {tm},
                !.nextId = @ + 1,
                !.calls = Append(@, [fn |-> "throttle", t |-> t,
                                     arg |-> term, id |-> s.nextId])]

\* throttle that sets inThrottle and never schedules its reset
throttleNoReset(s, term, t, limit) ==
  IF ~s.inThrottle
  THEN LET s1 == performSearch(s, term, t, "throttle", s.nextId)
       IN [s1 EXCEPT !.inThrottle = TRUE,
                     !.nextId = @ + 1,
                     !.calls = Append(@, [fn |-> "throttle", t |-> t,
                                          arg |-> term, id |-> s.nextId])]
  ELSE [s EXCEPT !.calls = Append(@, [fn |-> "throttle", t |-> t,
                                      arg |-> term, id |-> 0])]

\* throttle that queues a trailing invocation for a suppressed call
throttleTrailing(s, term, t, limit) ==
  IF ~s.inThrottle
  THEN LET s1 == performSearch(s, term, t, "throttle", s.nextId)
           tm == [id |-> s.nextId, due |-> t + limit, kind |-> "reset",
                  args |-> <<>>]
       IN [s1 EXCEPT !.inThrottle = TRUE,
                     !.timers = @ \cup {tm},
                     !.nextId = @ + 1,
                     !.calls = Append(@, [fn |-> "throttle", t |-> t,
                                          arg |-> term, id |-> s.nextId])]
  ELSE LET tm == [id |-> s.nextId, due |-> t + limit, kind |-> "debounce",
                  args |-> term]
       IN [s EXCEPT !.timers = @ \cup {tm},
                    !.nextId = @ + 1,
                    !.calls = Append(@, [fn |-> "throttle", t |-> t,
                                         arg |-> term, id |-> 0])]

\* the function throttle(func, limit) returns, called with term at time t
throttle(s, term, t, limit) ==
  IF ~s.inThrottle
  THEN LET s1 == performSearch(s, term, t, "throttle", s.nextId)
           tm == [id |-> s.nextId, due |-> t + limit, kind |-> "reset",
                  args |-> <<>>]
       IN [s1 EXCEPT !.inThrottle = TRUE,
                     !.timers = @ \cup {tm},
                     !.nextId = @ + 1,
                     !.calls = Append(@, [fn |-> "throttle", t |-> t,
                                          arg |-> term, id |-> s.nextId])]
  ELSE [s EXCEPT !.calls = Append(@, [fn |-> "throttle", t |-> t,
                                      arg |-> term, id |-> 0])]

debouncedSearch(s, term, t) == debounce(s, term, t, delayMs)

throttledSearch(s, term, t) == throttle(s, term, t, limitMs)

(***************************************************************************)
(* The effect on [searchTerm, debouncedSearch, throttledSearch].           *)
(***************************************************************************)
\* the gate with >= in the place of >
GatePassesInclusive(last, term, t) == t - last >= limitMs \/ trim(term) = <<>>

\* the gate with "and" in the place of "or"
GatePassesAnd(last, term, t) == t - last > limitMs /\ trim(term) = <<>>

\* the gate of the effect
GatePasses(last, term, t) == t - last > limitMs \/ trim(term) = <<>>

\* the effect calling the debounced function only when the gate fails
useEffectEither(s, term, t) ==
  LET s0 == [s EXCEPT !.calls = Append(@, [fn |-> "effect", t |-> t,
                                           arg |-> term, id |-> 0])]
  IN IF GatePasses(s0.lastExecutionRef, term, t)
     THEN [throttledSearch(s0, term, t) EXCEPT !.lastExecutionRef = t]
     ELSE debouncedSearch(s0, term, t)

\* the effect without lastExecutionRef.current = now
useEffectNoStamp(s, term, t) ==
  LET s0 == [s EXCEPT !.calls = Append(@, [fn |-> "effect", t |-> t,
                                           arg |-> term, id |-> 0])]
      s1 == debouncedSearch(s0, term, t)
  IN IF GatePasses(s1.lastExecutionRef, term, t)
     THEN throttledSearch(s1, term, t)
     ELSE s1

useEffect(s, term, t) ==
  LET s0 == [s EXCEPT !.calls = Append(@, [fn |-> "effect", t |-> t,
                                           arg |-> term, id |-> 0])]
      s1 == debouncedSearch(s0, term, t)
  IN IF GatePasses(s1.lastExecutionRef, term, t)
     THEN [throttledSearch(s1, term, t) EXCEPT !.lastExecutionRef = t]
     ELSE s1

(***************************************************************************)
(* Actions.                                                                *)
(***************************************************************************)
NumCalls(fn) == Cardinality({i \in 1..Len(calls) : calls[i].fn = fn})

Init ==
  /\ now = StartTime
  /\ phase = "rendered"
  /\ searchTerm = <<>>
  /\ results = <<>>
  /\ message = ""
  /\ isSearching = FALSE
  /\ lastExecutionRef = 0
  /\ timeoutId = 0
  /\ inThrottle = FALSE
  /\ timers = {}
  /\ nextId = 1
  /\ calls = <<>>
  /\ invocations = <<>>

\* the effect runs after the first render
Mount ==
  /\ phase = "rendered"
  /\ phase' = "mounted"
  /\ Commit(useEffect(Closure, searchTerm, now))
  /\ UNCHANGED <<now, searchTerm>>

\* onChange: setSearchTerm(e.target.value), then the effect of the re-render
InputChange(term) ==
  /\ phase = "mounted"
  /\ term # searchTerm
  /\ NumCalls("effect") < MaxCalls
  /\ searchTerm' = term
  /\ Commit(useEffect(Closure, term, now))
  /\ UNCHANGED <<now, phase>>

\* the component is removed; the effect returns no cleanup
Unmount ==
  /\ phase = "mounted"
  /\ phase' = "unmounted"
  /\ UNCHANGED <<now, searchTerm, results, message, isSearching,
                 lastExecutionRef, timeoutId, inThrottle, timers, nextId,
                 calls, invocations>>

\* the callback of debounce calling func without the arguments
DebounceTimeoutNoArgs ==
  \E tm \in timers :
    /\ tm.kind = "debounce"
    /\ tm.due <= now
    /\ Commit(performSearch([Closure EXCEPT !.timers = @ \ {tm}],
                            <<>>, now, "debounce", tm.id))
    /\ UNCHANGED <<now, phase, searchTerm>>

\* the callback debounce hands to setTimeout
DebounceTimeout ==
  \E tm \in timers :
    /\ tm.kind = "debounce"
    /\ tm.due <= now
    /\ Commit(performSearch([Closure EXCEPT !.timers = @ \ {tm}],
                            tm.args, now, "debounce", tm.id))
    /\ UNCHANGED <<now, phase, searchTerm>>

\* the callback of throttle leaving inThrottle as it is
ThrottleTimeoutKeepFlag ==
  \E tm \in timers :
    /\ tm.kind = "reset"
    /\ tm.due <= now
    /\ Commit([Closure EXCEPT !.timers = @ \ {tm}])
    /\ UNCHANGED <<now, phase, searchTerm>>

\* the callback throttle hands to setTimeout
ThrottleTimeout ==
  \E tm \in timers :
    /\ tm.kind = "reset"
    /\ tm.due <= now
    /\ Commit([Closure EXCEPT !.timers = @ \ {tm}, !.inThrottle = FALSE])
    /\ UNCHANGED <<now, phase, searchTerm>>

Min(S) == CHOOSE x \in S : \A y \in S : x <= y

\* time passes, up to the next due time and not beyond the horizon
Advance(horizon) ==
  /\ \A tm \in timers : tm.due > now
  /\ now' = Min({now + TimeUnit} \cup {tm.due : tm \in timers})
  /\ now' <= horizon
  /\ UNCHANGED <<phase, searchTerm, results, message, isSearching,
                 lastExecutionRef, timeoutId, inThrottle, timers, nextId,
                 calls, invocations>>

Tick == Advance(StartTime + MaxElapsed)

Next ==
  \/ Mount
  \/ \E term \in Terms : InputChange(term)
  \/ Unmount
  \/ DebounceTimeout
  \/ ThrottleTimeout
  \/ Tick

Spec == Init /\ [][Next]_vars

(***************************************************************************)
(* The two helpers on their own: the functions debounce(performSearch,     *)
(* 300) and throttle(performSearch, 800) return, called directly at any    *)
(* time with any term.                                                     *)
(***************************************************************************)
CallDebounced(term) ==
  /\ Len(calls) < MaxCalls
  /\ Commit(debouncedSearch(Closure, term, now))
  /\ UNCHANGED <<now, phase, searchTerm>>

CallThrottled(term) ==
  /\ Len(calls) < MaxCalls
  /\ Commit(throttledSearch(Closure, term, now))
  /\ UNCHANGED <<now, phase, searchTerm>>

\* time passes while the helpers are called directly
TickDirect == Advance(StartTime + MaxDirectElapsed)

NextDirect ==
  \/ \E term \in Args : CallDebounced(term)
  \/ \E term \in Args : CallThrottled(term)
  \/ DebounceTimeout
  \/ ThrottleTimeout
  \/ TickDirect

SpecDirect == Init /\ [][NextDirect]_vars

(***************************************************************************)
(* The histories, read per path.                                           *)
(***************************************************************************)
IsDebounceCall(c) == c.fn = "debounce"
IsThrottleCall(c) == c.fn = "throttle"
IsDebounceRun(v) == v.path = "debounce"
IsThrottleRun(v) == v.path = "throttle"

\* the calls of the debounced function, in call order
DebounceCalls == SelectSeq(calls, IsDebounceCall)
\* the calls of the throttled function, in call order
ThrottleCalls == SelectSeq(calls, IsThrottleCall)
\* the invocations of the target from a debounce timer, in order
DebounceRuns == SelectSeq(invocations, IsDebounceRun)
\* the invocations of the target by the throttled function, in order
ThrottleRuns == SelectSeq(invocations, IsThrottleRun)

\* the invocations that belong to the debounce calls i..j
RunsOfCalls(i, j) ==
  {k \in 1..Len(DebounceRuns) :
     \E m \in i..j : DebounceRuns[k].id = DebounceCalls[m].id}

\* the debounce calls i..j follow each other with gaps below delayMs
Burst(i, j) ==
  /\ 1 <= i /\ i <= j /\ j <= Len(DebounceCalls)
  /\ \A m \in i..(j - 1) :
       DebounceCalls[m + 1].t - DebounceCalls[m].t < delayMs

\* more than delayMs have passed since debounce call j without a call
Quiet(j) ==
  /\ now > DebounceCalls[j].t + delayMs
  /\ j < Len(DebounceCalls) =>
       DebounceCalls[j + 1].t - DebounceCalls[j].t > delayMs

(***************************************************************************)
(* C1 Debounce coalescing: a burst of calls of the debounced function with *)
(* gaps below delayMs, followed by no call within delayMs, invokes the     *)
(* target exactly once, with the argument of the last call of the burst,   *)
(* at the time of that call plus delayMs; no earlier call of the burst     *)
(* invokes it.                                                             *)
(***************************************************************************)
C1_DebounceCoalescing ==
  \A i \in 1..Len(DebounceCalls) : \A j \in i..Len(DebounceCalls) :
    (Burst(i, j) /\ Quiet(j)) =>
      /\ Cardinality(RunsOfCalls(i, j)) = 1
      /\ \A k \in RunsOfCalls(i, j) :
           /\ DebounceRuns[k].id = DebounceCalls[j].id
           /\ DebounceRuns[k].term = DebounceCalls[j].arg
           /\ DebounceRuns[k].t = DebounceCalls[j].t + delayMs

\* a burst of two calls with different arguments has been coalesced
C1_Witness ==
  \E i \in 1..Len(DebounceCalls) : \E j \in (i + 1)..Len(DebounceCalls) :
    /\ Burst(i, j) /\ Quiet(j)
    /\ DebounceCalls[i].arg # DebounceCalls[j].arg
    /\ DebounceCalls[i].t < DebounceCalls[j].t
    /\ RunsOfCalls(i, j) # {}

(***************************************************************************)
(* C9 Debounce reset, as claimed: two consecutive calls of the debounced   *)
(* function at least delayMs apart, with nothing called within delayMs     *)
(* after the second, invoke the target twice, once with each call's        *)
(* argument, in call order.                                                *)
(***************************************************************************)
TwoRunsInOrder(j) ==
  \E k \in 1..Len(DebounceRuns) : \E l \in (k + 1)..Len(DebounceRuns) :
    /\ RunsOfCalls(j, j) = {k}
    /\ RunsOfCalls(j + 1, j + 1) = {l}
    /\ DebounceRuns[k].term = DebounceCalls[j].arg
    /\ DebounceRuns[l].term = DebounceCalls[j + 1].arg

C9_AsClaimed ==
  \A j \in 1..(Len(DebounceCalls) - 1) :
    (/\ DebounceCalls[j + 1].t - DebounceCalls[j].t >= delayMs
     /\ Quiet(j + 1)) => TwoRunsInOrder(j)

(***************************************************************************)
(* C9 Debounce reset, amended: two consecutive calls of the debounced      *)
(* function more than delayMs apart, with nothing called within delayMs    *)
(* after the second, invoke the target twice, once with each call's        *)
(* argument, in call order; at a gap of exactly delayMs the second call    *)
(* is invoked once, and the first one only if its timer ran before the     *)
(* second call.                                                            *)
(***************************************************************************)
C9_DebounceReset ==
  \A j \in 1..(Len(DebounceCalls) - 1) :
    /\ (/\ DebounceCalls[j + 1].t - DebounceCalls[j].t > delayMs
        /\ Quiet(j + 1)) => TwoRunsInOrder(j)
    /\ (/\ DebounceCalls[j + 1].t - DebounceCalls[j].t = delayMs
        /\ Quiet(j + 1)) =>
          /\ Cardinality(RunsOfCalls(j + 1, j + 1)) = 1
          /\ \A l \in RunsOfCalls(j + 1, j + 1) :
               DebounceRuns[l].term = DebounceCalls[j + 1].arg
          /\ Cardinality(RunsOfCalls(j, j)) <= 1

\* two calls more than delayMs apart have both run, with different arguments
C9_Witness ==
  \E j \in 1..(Len(DebounceCalls) - 1) :
    /\ DebounceCalls[j + 1].t - DebounceCalls[j].t > delayMs
    /\ Quiet(j + 1)
    /\ DebounceCalls[j].arg # DebounceCalls[j + 1].arg
    /\ TwoRunsInOrder(j)

(***************************************************************************)
(* C2 Teardown safety, as claimed: the target is never invoked after the   *)
(* component has been unmounted.                                           *)
(***************************************************************************)
C2_AsClaimed ==
  \A k \in 1..Len(invocations) : invocations[k].live

(***************************************************************************)
(* C3 Coordinator empty-term bypass, as claimed: an input change to a term *)
(* that is empty when trimmed invokes the executor in the same turn, with  *)
(* that term, through the throttle path.                                   *)
(***************************************************************************)
\* this step runs performSearch(term) once, through the throttle path
ThrottleFiresNow(term) ==
  /\ Len(invocations') = Len(invocations) + 1
  /\ invocations'[Len(invocations')].path = "throttle"
  /\ invocations'[Len(invocations')].term = term
  /\ invocations'[Len(invocations')].t = now
  /\ SubSeq(invocations', 1, Len(invocations)) = invocations

C3_AsClaimed ==
  [][(searchTerm' # searchTerm /\ trim(searchTerm') = <<>>)
       => ThrottleFiresNow(searchTerm')]_vars

(***************************************************************************)
(* C4 SearchState invariant, as claimed: a non-empty message implies empty *)
(* results and a searchTerm that is non-empty when trimmed.                *)
(***************************************************************************)
C4_AsClaimed ==
  message # "" => (results = <<>> /\ trim(searchTerm) # <<>>)

(***************************************************************************)
(* C6 Eventual consistency: while the component is mounted, once delayMs   *)
(* have passed since the last searchTerm change and the debounce timer of  *)
(* that change has run, results and message are those performSearch        *)
(* publishes for the current searchTerm; after more than delayMs that      *)
(* timer has run.                                                          *)
(***************************************************************************)
IsEffectRun(c) == c.fn = "effect"
\* the runs of the effect: the mount and every searchTerm change
EffectRuns == SelectSeq(calls, IsEffectRun)

\* the timer the debounced function set last is still pending
DebouncePending == \E tm \in timers : tm.kind = "debounce" /\ tm.id = timeoutId

C6_EventualConsistency ==
  (phase = "mounted" /\ EffectRuns # <<>>) =>
    LET last == EffectRuns[Len(EffectRuns)]
        expected == Published(Closure, searchTerm)
    IN /\ last.arg = searchTerm
       /\ now - last.t > delayMs => ~DebouncePending
       /\ (now - last.t >= delayMs /\ ~DebouncePending) =>
            /\ results = expected.results
            /\ message = expected.message

\* quiescence after a change made while the throttle suppressed calls: the
\* term has matches and they are published
C6_Witness ==
  /\ phase = "mounted"
  /\ Len(EffectRuns) >= 2
  /\ now - EffectRuns[Len(EffectRuns)].t >= delayMs
  /\ ~DebouncePending
  /\ searchTerm = <<"d">>
  /\ Len(results) = 2
  /\ Len(ThrottleRuns) = 1

(***************************************************************************)
(* C7 Coordinator immediate fire: an input change made when more than      *)
(* limitMs have passed since lastExecutionRef invokes the executor in the  *)
(* same turn, with the new term, through the throttle path.                *)
(***************************************************************************)
C7_ImmediateFire ==
  [][(searchTerm' # searchTerm /\ now - lastExecutionRef > limitMs)
       => ThrottleFiresNow(searchTerm')]_vars

\* a keystroke has fired through the throttle path at once
C7_Witness ==
  \E k \in 1..Len(invocations) :
    /\ invocations[k].path = "throttle"
    /\ invocations[k].term = <<"z">>
    /\ invocations[k].t > StartTime + limitMs

(***************************************************************************)
(* C5 Throttle rate bound: any two invocations of the target through the   *)
(* throttle path are at least limitMs apart, so no window shorter than     *)
(* limitMs holds two of them.                                              *)
(***************************************************************************)
C5_ThrottleRateBound ==
  \A k \in 1..Len(ThrottleRuns) : \A l \in (k + 1)..Len(ThrottleRuns) :
    ThrottleRuns[l].t - ThrottleRuns[k].t >= limitMs

\* the throttle path has fired twice, and a forwarded call was dropped
C5_Witness ==
  /\ Len(ThrottleRuns) >= 2
  /\ \E j \in 1..Len(ThrottleCalls) : ThrottleCalls[j].id = 0

(***************************************************************************)
(* C8 Throttle leading edge: a call of the throttled function made when no *)
(* earlier call has invoked the target within the last limitMs (the first  *)
(* call in particular) invokes the target in the same turn with its        *)
(* argument; a call made less than limitMs after a call that invoked the   *)
(* target does not invoke it; a call made more than limitMs after the last *)
(* invoking call invokes it again.                                         *)
(***************************************************************************)
\* the throttle call j has invoked the target, at once, with its argument
Ran(j) ==
  /\ ThrottleCalls[j].id # 0
  /\ Cardinality({k \in 1..Len(ThrottleRuns) :
                    ThrottleRuns[k].id = ThrottleCalls[j].id}) = 1
  /\ \A k \in 1..Len(ThrottleRuns) :
       ThrottleRuns[k].id = ThrottleCalls[j].id =>
         /\ ThrottleRuns[k].term = ThrottleCalls[j].arg
         /\ ThrottleRuns[k].t = ThrottleCalls[j].t

\* the throttle call j has not invoked the target
Dropped(j) ==
  /\ ThrottleCalls[j].id = 0
  /\ Len(ThrottleRuns) = Cardinality({i \in 1..Len(ThrottleCalls) :
                                        ThrottleCalls[i].id # 0})

C8_ThrottleLeadingEdge ==
  \A j \in 1..Len(ThrottleCalls) :
    LET earlier == {i \in 1..(j - 1) : ThrottleCalls[i].id # 0}
        gap(i) == ThrottleCalls[j].t - ThrottleCalls[i].t
    IN /\ (\A i \in earlier : gap(i) > limitMs) => Ran(j)
       /\ (\E i \in earlier : gap(i) < limitMs) => Dropped(j)
       /\ Ran(j) \/ Dropped(j)

\* first call invokes, a second within limitMs does not, a third after
\* limitMs does
C8_Witness ==
  /\ Len(ThrottleCalls) = 3
  /\ Ran(1) /\ Dropped(2) /\ Ran(3)
  /\ ThrottleCalls[1].t < ThrottleCalls[2].t
  /\ ThrottleCalls[2].t - ThrottleCalls[1].t < limitMs
  /\ ThrottleCalls[3].t - ThrottleCalls[1].t > limitMs

(***************************************************************************)
(* The executor on its own: performSearch called once with any term of at  *)
(* most MaxLen characters.                                                 *)
(***************************************************************************)
Alphabet == {"d", "a", "n", "k", "r", "i", "z", " ", "K", "D"}

TermUniverse == UNION {[1..n -> Alphabet] : n \in 0..MaxLen}

Execute(term) ==
  /\ invocations = <<>>
  /\ Commit(performSearch(Closure, term, now, "direct", 0))
  /\ UNCHANGED <<now, phase, searchTerm>>

NextExec == \E term \in TermUniverse : Execute(term)

SpecExec == Init /\ [][NextExec]_vars

(***************************************************************************)
(* C10 Executor correctness: for a term that is not all white space the    *)
(* executor publishes exactly the candidates that are at least as long as  *)
(* the term and agree with it character by character up to case, in        *)
(* candidate order and as written, with an empty message if there are any  *)
(* and the no-match notice otherwise; for an empty or all-white-space term *)
(* it publishes no results and an empty message.  Over the candidates      *)
(* daniel0113, rebeka, kriszta, Krisztián01: "dan" gives daniel0113,       *)
(* "kri" gives kriszta and Krisztián01, "zzz" gives nothing and the        *)
(* notice, "" and "   " give nothing and no message.                       *)
(***************************************************************************)
AllWhiteSpace(term) == \A i \in 1..Len(term) : term[i] \in {" ", "\t"}

SameLetter(a, b) ==
  \/ a = b
  \/ \E p \in {<<"A","a">>, <<"D","d">>, <<"K","k">>, <<"R","r">>,
               <<"Z","z">>, <<"Á","á">>} :
       {a, b} = {p[1], p[2]}

Matches(username, term) ==
  /\ Len(term) <= Len(username)
  /\ \A i \in 1..Len(term) : SameLetter(username[i], term[i])

\* the candidates that match, in candidate order
Expected(candidates, term) ==
  LET M == {i \in 1..Len(candidates) : Matches(candidates[i], term)}
      Nth(j) == CHOOSE i \in M : Cardinality({x \in M : x <= i}) = j
  IN [j \in 1..Cardinality(M) |-> candidates[Nth(j)]]

SpecCandidates ==
  << <<"d","a","n","i","e","l","0","1","1","3">>,
     <<"r","e","b","e","k","a">>,
     <<"k","r","i","s","z","t","a">>,
     <<"K","r","i","s","z","t","i","á","n","0","1">> >>

\* results and message performSearch publishes over SpecCandidates
Case(term) ==
  LET p == PublishedFor(Closure, term, SpecCandidates)
  IN <<p.results, p.message>>

C10_Cases ==
  /\ Case(<<"d","a","n">>) = << <<SpecCandidates[1]>>, "" >>
  /\ Case(<<"k","r","i">>) = << <<SpecCandidates[3], SpecCandidates[4]>>, "" >>
  /\ Case(<<"z","z","z">>) = << <<>>, NoMatchMessage >>
  /\ Case(<<>>) = << <<>>, "" >>
  /\ Case(<<" "," "," ">>) = << <<>>, "" >>

C10_ExecutorCorrectness ==
  /\ C10_Cases
  /\ \A k \in 1..Len(invocations) :
       (invocations[k].path = "direct" /\ k = Len(invocations)) =>
         LET term == invocations[k].term
             found == Expected(usernames, term)
         IN /\ ~isSearching
            /\ IF AllWhiteSpace(term)
               THEN results = <<>> /\ message = ""
               ELSE /\ results = found
                    /\ message = IF found = <<>> THEN NoMatchMessage ELSE ""

\* an upper-case term has been executed and found both spellings
C10_Witness ==
  /\ Len(invocations) = 1
  /\ invocations[1].path = "direct"
  /\ invocations[1].term = <<"K","r","i">>
  /\ results = <<usernames[3], usernames[8]>>
  /\ message = ""

(***************************************************************************)
(* C11 Executor idempotence and history-independence: whatever was         *)
(* published before and whichever path calls it, an invocation of          *)
(* performSearch(term) on the mounted component leaves the results,        *)
(* message and busy flag that performSearch(term) leaves on the state of   *)
(* the first render; so two invocations with the same term leave the same. *)
(***************************************************************************)
\* the three cells as the first render has them
FirstRender ==
  [Closure EXCEPT !.results = <<>>, !.message = "", !.isSearching = FALSE]

\* this step invokes performSearch while the component is mounted
LiveInvocation ==
  /\ Len(invocations') = Len(invocations) + 1
  /\ invocations'[Len(invocations')].live

C11_HistoryIndependence ==
  [][LiveInvocation =>
       LET fresh == Published(FirstRender, invocations'[Len(invocations')].term)
       IN /\ results' = fresh.results
          /\ message' = fresh.message
          /\ isSearching' = fresh.isSearching]_vars

\* a term with matches has been executed twice in a row, through both paths,
\* after the notice of an earlier term had been published
C11_Witness ==
  /\ Len(invocations) >= 3
  /\ LET n == Len(invocations)
     IN /\ invocations[n].term = <<"d">>
        /\ invocations[n - 1].term = <<"d">>
        /\ invocations[n].path # invocations[n - 1].path
        /\ invocations[n - 2].term = <<"z">>
        /\ invocations[n].live
  /\ Len(results) = 2
  /\ message = ""

(***************************************************************************)
(* C12 Busy flag: after every handler and every timer callback has         *)
(* returned, isSearching is false, whether performSearch returned early on *)
(* an empty term or ran to its end.                                        *)
(***************************************************************************)
C12_NotBusyBetweenTurns == ~isSearching

\* performSearch has run on an empty term and on a non-empty one
C12_Witness ==
  /\ \E k \in 1..Len(invocations) :
       invocations[k].live /\ trim(invocations[k].term) = <<>>
  /\ \E k \in 1..Len(invocations) :
       invocations[k].live /\ trim(invocations[k].term) # <<>>
  /\ ~isSearching

(***************************************************************************)
(* C13 LastFireTimestamp accuracy, as claimed: lastExecutionRef is the     *)
(* time of the most recent throttle-path call that invoked the executor,   *)
(* or its initial value if there was none.                                 *)
(***************************************************************************)
C13_AsClaimed ==
  lastExecutionRef =
    IF ThrottleRuns = <<>> THEN 0 ELSE ThrottleRuns[Len(ThrottleRuns)].t

(***************************************************************************)
(* C14 Single pending debounce timer: at most one debounce timer is        *)
(* pending, it is the one the latest call of the debounced function set,   *)
(* and a timer callback that runs belongs to the latest call made before   *)
(* it, never to a superseded one.                                          *)
(***************************************************************************)
DebounceTimers == {tm \in timers : tm.kind = "debounce"}

C14_SinglePendingTimer ==
  /\ [](/\ Cardinality(DebounceTimers) <= 1
        /\ \A tm \in DebounceTimers : tm.id = timeoutId)
  /\ [][(Len(invocations') = Len(invocations) + 1
          /\ invocations'[Len(invocations')].path = "debounce")
         => /\ invocations'[Len(invocations')].id = timeoutId
            /\ DebounceTimers' = {}]_vars

\* a call has replaced a pending timer, whose id is no longer pending
C14_Witness ==
  /\ Len(DebounceCalls) >= 2
  /\ Cardinality(DebounceTimers) = 1
  /\ DebounceCalls[Len(DebounceCalls)].t
       - DebounceCalls[Len(DebounceCalls) - 1].t < delayMs
  /\ \A k \in 1..Len(DebounceRuns) :
       DebounceRuns[k].id # DebounceCalls[Len(DebounceCalls) - 1].id

(***************************************************************************)
(* C15 Coordinator gate: an input change at time now to a term that is     *)
(* not empty when trimmed calls the throttled function and sets            *)
(* lastExecutionRef to now exactly when now - lastExecutionRef > limitMs;  *)
(* otherwise (also at exactly limitMs) the turn makes no throttle call,    *)
(* leaves lastExecutionRef, the throttle and the published state alone,    *)
(* and only sets the debounce timer anew with the new term.                *)
(***************************************************************************)
\* the entries this step adds to calls
NewCalls == SubSeq(calls', Len(calls) + 1, Len(calls'))

\* the step replaces the debounce timer by one for term, due in delayMs
DebounceRearmed(term) ==
  /\ DebounceTimers' =
       {[id |-> nextId, due |-> now + delayMs, kind |-> "debounce",
         args |-> term]}
  /\ timers' \ DebounceTimers' = timers \ DebounceTimers
  /\ timeoutId' = nextId

C15_CoordinatorGate ==
  [][(searchTerm' # searchTerm /\ trim(searchTerm') # <<>>) =>
       /\ SubSeq(calls', 1, Len(calls)) = calls
       /\ IF now - lastExecutionRef > limitMs
          THEN /\ Len(NewCalls) = 3
               /\ NewCalls[3].fn = "throttle"
               /\ NewCalls[3].arg = searchTerm'
               /\ NewCalls[3].t = now
               /\ lastExecutionRef' = now
          ELSE /\ Len(NewCalls) = 2
               /\ NewCalls[1].fn = "effect"
               /\ NewCalls[2].fn = "debounce"
               /\ DebounceRearmed(searchTerm')
               /\ UNCHANGED <<lastExecutionRef, inThrottle, results, message,
                              isSearching, invocations>>]_vars

\* a keystroke exactly limitMs after lastExecutionRef has only set the
\* debounce timer, and a later one has passed the gate
C15_Witness ==
  /\ \E i \in 1..(Len(calls) - 1) :
       /\ calls[i].fn = "effect"
       /\ trim(calls[i].arg) # <<>>
       /\ calls[i].t = StartTime + limitMs
       /\ calls[i + 1].fn = "debounce"
       /\ (i + 2 <= Len(calls) => calls[i + 2].fn # "throttle")
  /\ Len(ThrottleRuns) = 2
  /\ ThrottleRuns[1].t = StartTime
  /\ trim(ThrottleRuns[2].term) # <<>>

(***************************************************************************)
(* C16 Suppressed throttle call is a no-op: a call of the throttled        *)
(* function while inThrottle is true invokes nothing, leaves inThrottle,   *)
(* the pending timers and the published state as they are, schedules       *)
(* nothing, and no later invocation stems from it: every invocation        *)
(* belongs to a debounce call or to a throttle call that was not           *)
(* suppressed, and carries that call's argument.                           *)
(***************************************************************************)
\* this step is one direct call of the throttled function
ThrottledCalled ==
  /\ Len(calls') = Len(calls) + 1
  /\ calls'[Len(calls')].fn = "throttle"

C16_SuppressedCallNoOp ==
  /\ [][(ThrottledCalled /\ inThrottle) =>
          UNCHANGED <<inThrottle, timers, nextId, timeoutId, results,
                      message, isSearching, invocations,
                      lastExecutionRef>>]_vars
  /\ [](\A k \in 1..Len(invocations) :
          \E i \in 1..Len(calls) :
            /\ calls[i].id # 0
            /\ calls[i].id = invocations[k].id
            /\ calls[i].fn = invocations[k].path
            /\ calls[i].arg = invocations[k].term)

\* a call was suppressed, the throttle has been reset since and time has
\* passed, and the only invocation is the one of the first call
C16_Witness ==
  /\ Len(ThrottleCalls) = 2
  /\ ThrottleCalls[1].id # 0
  /\ ThrottleCalls[2].id = 0
  /\ ThrottleCalls[1].arg # ThrottleCalls[2].arg
  /\ ~inThrottle
  /\ now > ThrottleCalls[2].t + limitMs
  /\ Len(invocations) = 1

(***************************************************************************)
(* C17 Bounded invocation rate: two invocations from debounce timers are   *)
(* at least delayMs apart and two invocations through the throttle path at *)
(* least limitMs apart, so a window of limitMs starting at an invocation   *)
(* holds no more invocations than fit at those distances, however many     *)
(* input changes it holds.                                                 *)
(***************************************************************************)
\* the most invocations a window [t, t + limitMs) can hold at those gaps
WindowBound == ((limitMs - 1) \div delayMs + 1) + 1

C17_BoundedRate ==
  /\ \A k \in 1..Len(DebounceRuns) : \A l \in (k + 1)..Len(DebounceRuns) :
       DebounceRuns[l].t - DebounceRuns[k].t >= delayMs
  /\ \A k \in 1..Len(ThrottleRuns) : \A l \in (k + 1)..Len(ThrottleRuns) :
       ThrottleRuns[l].t - ThrottleRuns[k].t >= limitMs
  /\ \A k \in 1..Len(invocations) :
       Cardinality({l \in 1..Len(invocations) :
                      /\ invocations[l].t >= invocations[k].t
                      /\ invocations[l].t < invocations[k].t + limitMs})
         <= WindowBound

\* two debounce invocations exactly delayMs apart, after three input events
\* the first two of which came at the same instant
C17_Witness ==
  /\ Len(EffectRuns) = 3
  /\ EffectRuns[1].t = EffectRuns[2].t
  /\ \E k \in 1..(Len(DebounceRuns) - 1) :
       DebounceRuns[k + 1].t - DebounceRuns[k].t = delayMs

(***************************************************************************)
(* C18 Throttle boundary race, as claimed: a call of the throttled         *)
(* function made exactly limitMs after the last call that invoked the      *)
(* target invokes the target, whichever of the call and the reset callback *)
(* runs first.                                                             *)
(***************************************************************************)
\* the last throttle call before call j that invoked the target was made
\* exactly limitMs before call j
AtBoundary(j) ==
  /\ \E i \in 1..(j - 1) :
       /\ ThrottleCalls[i].id # 0
       /\ ThrottleCalls[j].t - ThrottleCalls[i].t = limitMs
  /\ \A i \in 1..(j - 1) :
       ThrottleCalls[i].id # 0 =>
         ThrottleCalls[j].t - ThrottleCalls[i].t >= limitMs

C18_AsClaimed ==
  \A j \in 1..Len(ThrottleCalls) : AtBoundary(j) => Ran(j)

(***************************************************************************)
(* C18 Throttle boundary race, amended: a call of the throttled function   *)
(* made exactly limitMs after the last invocation through the throttle     *)
(* invokes the target if the reset callback of that invocation has already *)
(* run, and is dropped if that callback is still pending.                  *)
(***************************************************************************)
ResetPending == \E tm \in timers : tm.kind = "reset"

C18_BoundaryRace ==
  [][(/\ ThrottledCalled
      /\ ThrottleRuns # <<>>
      /\ now - ThrottleRuns[Len(ThrottleRuns)].t = limitMs)
     => IF ResetPending
        THEN invocations' = invocations
        ELSE /\ Len(invocations') = Len(invocations) + 1
             /\ invocations'[Len(invocations')].path = "throttle"
             /\ invocations'[Len(invocations')].term = calls'[Len(calls')].arg
             /\ invocations'[Len(invocations')].t = now]_vars

\* at the boundary instant one call came before the reset callback and was
\* dropped, the next came after it and invoked the target
C18_Witness ==
  /\ Len(ThrottleCalls) = 3
  /\ Ran(1) /\ Dropped(2) /\ Ran(3)
  /\ ThrottleCalls[2].t = ThrottleCalls[1].t + limitMs
  /\ ThrottleCalls[3].t = ThrottleCalls[1].t + limitMs

(***************************************************************************)
(* C19 No stale-term execution: while the component is mounted, every      *)
(* invocation of performSearch, from the throttle path or from a debounce  *)
(* timer, gets the searchTerm of that instant.                             *)
(***************************************************************************)
C19_NoStaleTerm ==
  [][LiveInvocation =>
       invocations'[Len(invocations')].term = searchTerm']_vars

\* a debounce timer has run after the term it was first set for had been
\* replaced, and it carried the replacement
C19_Witness ==
  \E k \in 1..Len(DebounceRuns) : \E j \in 2..Len(DebounceCalls) :
    /\ DebounceRuns[k].live
    /\ DebounceRuns[k].id = DebounceCalls[j].id
    /\ DebounceCalls[j].t - DebounceCalls[j - 1].t < delayMs
    /\ DebounceCalls[j - 1].arg # DebounceCalls[j].arg
    /\ DebounceRuns[k].term = searchTerm

(***************************************************************************)
(* C20 Gate agreement: whenever inThrottle is true, at most limitMs have   *)
(* passed since lastExecutionRef; so a call the effect forwards because    *)
(* more than limitMs have passed is never dropped, and every call of the   *)
(* throttled function that was dropped had a term that is empty when       *)
(* trimmed.                                                                *)
(***************************************************************************)
C20_GateAgreement ==
  /\ inThrottle => now - lastExecutionRef <= limitMs
  /\ \A j \in 1..Len(ThrottleCalls) :
       ThrottleCalls[j].id = 0 => trim(ThrottleCalls[j].arg) = <<>>

\* the bound is reached with the flag still set, and an empty-term call
\* has been dropped
C20_Witness ==
  /\ inThrottle
  /\ now - lastExecutionRef = limitMs
  /\ \E j \in 1..Len(ThrottleCalls) : ThrottleCalls[j].id = 0

====
